---- MODULE Spec2Model ----
(***************************************************************************)
(* Model of the RSS import service: the Express routes (app.ts), the       *)
(* RssModule class (import, saveImportRequest, get, runQuery, isValidUrl,  *)
(* wordWithMostVowels) and the two PostgreSQL tables (articles, imports).   *)
(*                                                                         *)
(* JavaScript values: an object is a record that holds only the keys that  *)
(* are defined; a missing key reads as Undefined.  Every await is a point  *)
(* where other requests may run, so each action below is the code between  *)
(* two awaits of one request.                                               *)
(***************************************************************************)
EXTENDS Naturals, Sequences, FiniteSets, TLC

(* ------------------------------ bounds --------------------------------- *)

\* number of POST /api/articles/import requests that may be in flight
NumCalls == 2
\* number of GET /api/articles requests that may be in flight
NumReads == 1
\* the wall clock (new Date()) takes the values 0..MaxClock
MaxClock == 1

Calls == 1..NumCalls
Reads == 1..NumReads

(* --------------------------- JavaScript values ------------------------- *)

Undefined == "<undefined>"
Null == "<null>"

\* obj[k] of JavaScript: Undefined when the key is absent
Field(obj, k) == IF k \in DOMAIN obj THEN obj[k] ELSE Undefined

\* obj.image?.url
ImageUrl(obj) ==
    IF "image" \in DOMAIN obj /\ "url" \in DOMAIN obj.image
    THEN obj.image.url
    ELSE Undefined

\* a ?? b
Coalesce(a, b) == IF a = Undefined \/ a = Null THEN b ELSE a

\* s.startsWith(prefix)
startsWith(s, prefix) ==
    Len(s) >= Len(prefix) /\ SubSeq(s, 1, Len(prefix)) = prefix

\* position of the first occurrence of character c in s at or after i, 0 if none
RECURSIVE IndexOf(_, _, _)
IndexOf(s, c, i) ==
    IF i > Len(s) THEN 0
    ELSE IF SubSeq(s, i, i) = c THEN i
    ELSE IndexOf(s, c, i + 1)

\* title.split(' '): cut at every single space; "" gives <<"">>
RECURSIVE split(_)
split(s) ==
    LET i == IndexOf(s, " ", 1) IN
    IF i = 0 THEN <<s>>
    ELSE <<SubSeq(s, 1, i - 1)>> \o split(SubSeq(s, i + 1, Len(s)))

(* ------------------------------ RssModule ------------------------------ *)

vowels == {"a", "e", "i", "o", "u", "y"}

primaryKey == "guid"

supportedRssFeeds ==
    { "https://www.lemonde.fr/rss/une.xml",
      "https://www.theguardian.com/world/europe-news/rss" }

\* number of letters of word that are in vowels
RECURSIVE vowelCount(_, _)
vowelCount(word, i) ==
    IF i > Len(word) THEN 0
    ELSE (IF SubSeq(word, i, i) \in vowels THEN 1 ELSE 0) + vowelCount(word, i + 1)

\* faulty variant: of two words with as many vowels and as many letters the
\* later one is kept
RECURSIVE mostVowelsLoopLastWins(_, _, _, _)
mostVowelsLoopLastWins(words, i, best, mostVowels) ==
    IF i > Len(words) THEN best
    ELSE LET word == words[i]
             n == vowelCount(word, 1)
         IN  IF n > mostVowels THEN mostVowelsLoopLastWins(words, i + 1, word, n)
             ELSE IF n = mostVowels /\ Len(word) >= Len(best)
                  THEN mostVowelsLoopLastWins(words, i + 1, word, mostVowels)
                  ELSE mostVowelsLoopLastWins(words, i + 1, best, mostVowels)

\* the loop of wordWithMostVowels over words[i..], with the running best
RECURSIVE mostVowelsLoop(_, _, _, _)
mostVowelsLoop(words, i, best, mostVowels) ==
    IF i > Len(words) THEN best
    ELSE LET word == words[i]
             n == vowelCount(word, 1)
         IN  IF n > mostVowels THEN mostVowelsLoop(words, i + 1, word, n)
             ELSE IF n = mostVowels /\ Len(word) > Len(best)
                  THEN mostVowelsLoop(words, i + 1, word, mostVowels)
                  ELSE mostVowelsLoop(words, i + 1, best, mostVowels)

wordWithMostVowels(title) == mostVowelsLoop(split(title), 1, "", 0)

\* new URL(url) for a string that starts with http:// or https://: the host
\* (up to the first "/") must be non-empty and hold no space
RECURSIVE SkipSlashes(_)
SkipSlashes(s) ==
    IF Len(s) > 0 /\ SubSeq(s, 1, 1) = "/" THEN SkipSlashes(SubSeq(s, 2, Len(s))) ELSE s

UrlParses(url) ==
    LET afterScheme == SubSeq(url, IndexOf(url, ":", 1) + 1, Len(url))
        rest == SkipSlashes(afterScheme)
        slash == IndexOf(rest, "/", 1)
        host == IF slash = 0 THEN rest ELSE SubSeq(rest, 1, slash - 1)
    IN  Len(host) > 0 /\ IndexOf(host, " ", 1) = 0

\* faulty variant: the allow-list matched by prefix instead of exactly
isSupportedFeedByPrefix(feedUrl) ==
    \E f \in supportedRssFeeds : startsWith(feedUrl, f)

isSupportedFeed(feedUrl) == feedUrl \in supportedRssFeeds

\* a request value: [type |-> "undefined"], [type |-> "array"] or
\* [type |-> "string", value |-> s]
Falsy(v) == v.type = "undefined" \/ (v.type = "string" /\ v.value = "")

isValidUrl(url) ==
    IF Falsy(url) \/ url.type # "string" THEN FALSE
    ELSE IF ~startsWith(url.value, "http://") /\ ~startsWith(url.value, "https://")
         THEN FALSE
    ELSE IF UrlParses(url.value) THEN isSupportedFeed(url.value)
    ELSE FALSE

(* -------------------------------- app.ts ------------------------------- *)

RequiredMessage == "The siteRssUrl parameter is required and must be a string"
UnsupportedMessage == "The siteRssUrl parameter must be a valid and supported URL"

\* faulty variant: the route checks only that the parameter is present
isValidPresenceOnly(siteRssUrl) ==
    IF Falsy(siteRssUrl) \/ siteRssUrl.type # "string"
    THEN [valid |-> FALSE, error |-> RequiredMessage]
    ELSE [valid |-> TRUE]

\* isValid(req): true, or the error message
isValid(siteRssUrl) ==
    IF Falsy(siteRssUrl) \/ siteRssUrl.type # "string"
    THEN [valid |-> FALSE, error |-> RequiredMessage]
    ELSE IF ~isValidUrl(siteRssUrl)
         THEN [valid |-> FALSE, error |-> UnsupportedMessage]
         ELSE [valid |-> TRUE]

\* the values of req.query.siteRssUrl a client may send
Str(s) == [type |-> "string", value |-> s]

QueryValues ==
    { [type |-> "undefined"],
      [type |-> "array"],
      Str(""),
      Str("not a valid URL"),
      Str("www.lemonde.fr/rss/une.xml"),
      Str("//www.lemonde.fr/rss/une.xml"),
      Str("http:hello"),
      Str("https://"),
      Str("http://le monde.fr/rss"),
      Str("ftp://www.lemonde.fr/rss/une.xml"),
      Str("http://www.lemonde.fr/rss/une.xml"),
      Str("https://www.lemonde.fr/rss/une.xml/"),
      Str("https://www.theguardian.com/world/world-news/rss"),
      Str("https://www.lemonde.fr/rss/une.xml"),
      Str("https://www.theguardian.com/world/europe-news/rss") }

(* ------------------------ the remote feed documents -------------------- *)

\* what parser.parseURL(url) may resolve to: the documents a site serves
\* over time.  An item is a record of the keys the document defines.
Item(guid, title, snippet, pubDate, link) ==
    [guid |-> guid, title |-> title, contentSnippet |-> snippet,
     pubDate |-> pubDate, link |-> link]

WithImage(obj, url) ==
    [k \in DOMAIN obj \cup {"image"} |->
        IF k = "image" THEN [url |-> url] ELSE obj[k]]

LeMondeUne ==
    WithImage(
      [items |-> << Item("g1", "Le monde", "s1", "d1", "l1"),
                    WithImage(Item("g2", "a ee", "s2", "d2", "l2"), "pic2") >>],
      "feedpic")

\* the same document after the site edited the title of g1
LeMondeUneEdited ==
    WithImage(
      [items |-> << Item("g1", "Le monde oui", "s1", "d1", "l1"),
                    WithImage(Item("g2", "a ee", "s2", "d2", "l2"), "pic2") >>],
      "feedpic")

\* a parsed result with no items collection
LeMondeNoItems == [title |-> "Le Monde"]

\* the second item has no guid; the first shares g1 with the other site
GuardianEurope ==
    [items |-> << Item("g1", "Europe", "s3", "d3", "l3"),
                  [title |-> "no guid", contentSnippet |-> "s4",
                   pubDate |-> "d4", link |-> "l4"],
                  Item("g3", "last", "s5", "d5", "l5") >>]

\* one external id twice within the document
GuardianRepeated ==
    [items |-> << Item("g3", "first", "s6", "d6", "l6"),
                  Item("g3", "second", "s7", "d7", "l7") >>]

GuardianEmpty == [items |-> << >>]

FeedDocuments(url) ==
    IF url = "https://www.lemonde.fr/rss/une.xml"
    THEN {LeMondeUne, LeMondeUneEdited, LeMondeNoItems}
    ELSE {GuardianEurope, GuardianRepeated, GuardianEmpty}

\* JSON.stringify: the defined keys of an object as a list of key/value
\* pairs, an array as the list of its elements' serialisations
ItemKeys == <<"guid", "title", "contentSnippet", "pubDate", "link", "image">>

Pairs(obj, keys) ==
    LET present == SelectSeq(keys, LAMBDA k : k \in DOMAIN obj)
    IN  [i \in 1..Len(present) |-> <<present[i], obj[present[i]]>>]

JSONstringify(results) ==
    LET items == IF "items" \in DOMAIN results
                 THEN << <<"items", [i \in 1..Len(results.items) |->
                                        Pairs(results.items[i], ItemKeys)]>> >>
                 ELSE << >>
    IN  items \o Pairs(results, <<"title", "image">>)

(* ------------------------------ PostgreSQL ----------------------------- *)

\* SQLSTATE codes
Success == "00000"
UniqueViolation == "23505"
NotNullViolation == "23502"
ConnectionFailure == "08006"

\* faulty variant: the catch tests for another SQLSTATE
ConflictCodeMistyped == "23503"

\* the error.code the catch of saveImportRequest takes as "already exists"
ConflictCode == "23505"

\* the columns of articles declared NOT NULL whose value comes from the feed
\* (importDate is always a Date)
NotNullColumns == {"externalId", "title", "description", "publicationDate", "link"}

\* node-postgres sends an undefined parameter as NULL
ToSql(v) == IF v = Undefined THEN Null ELSE v

\* the row of INSERT INTO articles (...) VALUES ($1..$7), id from the SERIAL
InsertRow(item, results, id, now) ==
    [id |-> id,
     externalId |-> ToSql(Field(item, primaryKey)),
     importDate |-> now,
     title |-> ToSql(Field(item, "title")),
     description |-> ToSql(Field(item, "contentSnippet")),
     publicationDate |-> ToSql(Field(item, "pubDate")),
     link |-> ToSql(Field(item, "link")),
     mainPicture |-> Coalesce(ImageUrl(item), Coalesce(ImageUrl(results), ""))]

\* faulty variant: the table without its unique index
NoUniqueIndex(row, rows) ==
    IF \E c \in NotNullColumns : row[c] = Null THEN NotNullViolation ELSE Success

\* what the INSERT answers on table rows: NOT NULL is checked before the
\* unique index articles_externalId_uindex
InsertSqlState(row, rows) ==
    IF \E c \in NotNullColumns : row[c] = Null THEN NotNullViolation
    ELSE IF \E a \in rows : a.externalId = row.externalId THEN UniqueViolation
    ELSE Success

\* faulty variant: title left out of the SET list
UpdateKeepsTitle(rows, item) ==
    { IF a.externalId = ToSql(Field(item, primaryKey))
      THEN [a EXCEPT !.description = ToSql(Field(item, "contentSnippet")),
                     !.publicationDate = ToSql(Field(item, "pubDate")),
                     !.link = ToSql(Field(item, "link")),
                     !.mainPicture = Coalesce(ImageUrl(item), "")]
      ELSE a : a \in rows }

\* UPDATE articles SET title, description, publicationDate, link, mainPicture
\* WHERE externalId = $6
UpdateRows(rows, item) ==
    { IF a.externalId = ToSql(Field(item, primaryKey))
      THEN [a EXCEPT !.title = ToSql(Field(item, "title")),
                     !.description = ToSql(Field(item, "contentSnippet")),
                     !.publicationDate = ToSql(Field(item, "pubDate")),
                     !.link = ToSql(Field(item, "link")),
                     !.mainPicture = Coalesce(ImageUrl(item), "")]
      ELSE a : a \in rows }

UpdateSqlState(rows, item) ==
    IF \E a \in UpdateRows(rows, item) : \E c \in NotNullColumns : a[c] = Null
    THEN NotNullViolation
    ELSE Success

\* INSERT INTO imports (rawContent) VALUES ($1): id SERIAL, importDate now()
ImportsRow(ledger, rawContent, now) ==
    [id |-> Len(ledger) + 1, importDate |-> now, rawContent |-> rawContent]

\* faulty variant: the query returns a first page only
SelectFirstPage(rows) == {a \in rows : a.id <= 1}

\* SELECT * FROM articles: every row, no WHERE and no LIMIT
SelectAll(rows) == rows

\* a row as SELECT * returns it (unquoted column names fold to lower case),
\* with the property get() adds
ArticleJson(a) ==
    [id |-> a.id, externalid |-> a.externalId, importdate |-> a.importDate,
     title |-> a.title, description |-> a.description,
     publicationdate |-> a.publicationDate, link |-> a.link,
     mainpicture |-> a.mainPicture,
     wordwithmostvowels |-> wordWithMostVowels(a.title)]

(* -------------------------------- state -------------------------------- *)

VARIABLES
    pc,           \* where each import request is
    req,          \* its req.query.siteRssUrl
    results,      \* what parser.parseURL resolved to
    idx,          \* position of the for..of loop over results.items
    response,     \* the HTTP response sent, [status |-> 0] while none
    thrown,       \* the error saveImportRequest rejected with
    postedAfter,  \* the import requests already answered when this one arrived
    save,         \* the save argument of import
    resolvedUrl,  \* the url of import after url = url || this.url
    returned,     \* what the promise of import settled with
    tableBefore,  \* table articles as it was when saveImportRequest began
    defaultUrl,   \* the url field of the RssModule instance
    rpc,          \* where each GET request is
    rresponse,    \* the HTTP response of each GET request
    issuedAfter,  \* the import requests already answered 201 when the GET arrived
    articles,     \* table articles
    articlesSeq,  \* last value of the SERIAL of articles.id
    imports,      \* table imports, in insertion order
    checkedOut,   \* clients of the pool checked out and not released
    clock         \* new Date() / now()

vars == <<pc, req, results, idx, response, thrown, postedAfter, save,
          resolvedUrl, returned, tableBefore, defaultUrl, rpc, rresponse,
          issuedAfter, articles, articlesSeq, imports, checkedOut, clock>>

callVars == <<pc, req, results, idx, response, thrown, postedAfter, save,
              resolvedUrl, returned, tableBefore, defaultUrl>>
\* what the steps of saveImportRequest leave alone
argVars == <<req, results, response, postedAfter, save, resolvedUrl, returned,
             tableBefore, defaultUrl>>
readVars == <<rpc, rresponse, issuedAfter>>
dbVars == <<articles, articlesSeq, imports>>

NoResults == [pending |-> TRUE]
NoResponse == [status |-> 0]
NoError == [at |-> "none"]
NoReturn == [kind |-> "pending"]
NoTable == [quiet |-> FALSE]
InvalidUrlMessage ==
    "No URL was provided or it was malformed. Construct the class with a URL that starts with http/https."
NoItemsMessage == "No items found in the RSS feed, so no articles were imported"

\* the constructor of RssModule: the url argument is kept only if valid
constructorUrl(url) == IF ~Falsy(url) /\ isValidUrl(url) THEN url ELSE Str("")

\* the url field of the instance app.ts constructs: new RssModule()
thisUrl == Str("")

InitRequests ==
    /\ pc = [p \in Calls |-> "idle"]
    /\ req = [p \in Calls |-> [type |-> "undefined"]]
    /\ results = [p \in Calls |-> NoResults]
    /\ idx = [p \in Calls |-> 0]
    /\ response = [p \in Calls |-> NoResponse]
    /\ thrown = [p \in Calls |-> NoError]
    /\ postedAfter = [p \in Calls |-> {}]
    /\ save = [p \in Calls |-> TRUE]
    /\ resolvedUrl = [p \in Calls |-> [type |-> "undefined"]]
    /\ returned = [p \in Calls |-> NoReturn]
    /\ tableBefore = [p \in Calls |-> NoTable]
    /\ rpc = [r \in Reads |-> "idle"]
    /\ rresponse = [r \in Reads |-> NoResponse]
    /\ issuedAfter = [r \in Reads |-> {}]
    /\ checkedOut = 0
    /\ clock = 0

\* the tables as the migrations create them
InitTables ==
    /\ articles = {}
    /\ articlesSeq = 0
    /\ imports = << >>

\* the service as app.ts starts it
Init == InitRequests /\ InitTables /\ defaultUrl = thisUrl

(* --------------------- POST /api/articles/import ----------------------- *)

Answered(p) == response[p].status # 0

\* faulty variant: an argument that is not valid gives way to the url field
importUrlValidFirst(url) == IF isValidUrl(url) THEN url ELSE defaultUrl

\* url = url || this.url, at the head of import
importUrl(url) == IF Falsy(url) THEN defaultUrl ELSE url

\* import up to await parser.parseURL(url): the url is resolved and checked
ImportStart(p, url) ==
    /\ resolvedUrl' = [resolvedUrl EXCEPT ![p] = importUrl(url)]
    /\ IF isValidUrl(importUrl(url))
       THEN /\ pc' = [pc EXCEPT ![p] = "parseURL"]
            /\ UNCHANGED returned
       ELSE /\ pc' = [pc EXCEPT ![p] = "importThrew"]
            /\ returned' = [returned EXCEPT ![p] =
                   [kind |-> "rejected", message |-> InvalidUrlMessage]]

\* faulty variant: import saves whatever the save argument says
ImportResolveAlwaysSaves(p, r) ==
    /\ results' = [results EXCEPT ![p] = r]
    /\ returned' = [returned EXCEPT ![p] = [kind |-> "resolved", value |-> r]]
    /\ pc' = [pc EXCEPT ![p] = "ledgerConnect"]
    /\ UNCHANGED tableBefore

\* import after parser.parseURL resolved with r: without save it returns r;
\* with save it calls saveImportRequest without awaiting it (that call runs
\* to its first await, pool.connect inside runQuery), the try block ends and
\* finally returns r
ImportResolve(p, r) ==
    /\ results' = [results EXCEPT ![p] = r]
    /\ returned' = [returned EXCEPT ![p] = [kind |-> "resolved", value |-> r]]
    /\ IF save[p]
       THEN /\ pc' = [pc EXCEPT ![p] = "ledgerConnect"]
            /\ tableBefore' = [tableBefore EXCEPT ![p] =
                   IF \A o \in Calls \ {p} :
                         pc[o] \in {"idle", "rejected", "importThrew", "fetchFailed",
                                    "returned", "saved", "saveFailed"}
                   THEN [quiet |-> TRUE, articles |-> articles,
                         finished |-> {o \in Calls \ {p} : pc[o] # "idle"}]
                   ELSE NoTable]
       ELSE /\ pc' = [pc EXCEPT ![p] = "returned"]
            /\ UNCHANGED tableBefore

\* the route handler up to its first await: isValid, then either the 422 or
\* rssModule.import(siteRssUrl) up to await parser.parseURL(url).  Requests
\* are numbered in the order they arrive.
Post(p) ==
    /\ pc[p] = "idle"
    /\ \A o \in Calls : o < p => pc[o] # "idle"
    /\ \E q \in QueryValues :
         /\ req' = [req EXCEPT ![p] = q]
         /\ IF ~isValid(q).valid
            THEN /\ pc' = [pc EXCEPT ![p] = "rejected"]
                 /\ response' = [response EXCEPT ![p] =
                        [status |-> 422, error |-> isValid(q).error]]
                 /\ UNCHANGED <<returned, resolvedUrl>>
            ELSE /\ ImportStart(p, q)
                 /\ UNCHANGED response
    /\ postedAfter' = [postedAfter EXCEPT ![p] = {o \in Calls : Answered(o)}]
    /\ UNCHANGED <<results, idx, thrown, save, tableBefore, defaultUrl, readVars,
                   dbVars, checkedOut, clock>>

\* parser.parseURL resolves, import returns results and the route answers 201
ParseURLResolve(p) ==
    /\ pc[p] = "parseURL"
    /\ \E r \in FeedDocuments(resolvedUrl[p].value) :
         /\ ImportResolve(p, r)
         /\ response' = [response EXCEPT ![p] = [status |-> 201, body |-> r]]
    /\ UNCHANGED <<req, idx, thrown, postedAfter, save, resolvedUrl, defaultUrl,
                   readVars, dbVars, checkedOut, clock>>

\* faulty variant: the attempt is recorded in the ledger before the outcome
\* of the fetch is known
ParseURLRejectRecorded(p) ==
    /\ pc[p] = "parseURL"
    /\ pc' = [pc EXCEPT ![p] = "fetchFailed"]
    /\ returned' = [returned EXCEPT ![p] = [kind |-> "rejected", message |-> "fetch"]]
    /\ imports' = Append(imports, ImportsRow(imports, << >>, clock))
    /\ UNCHANGED <<req, results, idx, response, thrown, postedAfter, save,
                   resolvedUrl, tableBefore, defaultUrl, readVars, articles,
                   articlesSeq, checkedOut, clock>>

\* parser.parseURL rejects: import rejects, and so does the route handler
\* (Express does not answer for a rejected async handler)
ParseURLReject(p) ==
    /\ pc[p] = "parseURL"
    /\ pc' = [pc EXCEPT ![p] = "fetchFailed"]
    /\ returned' = [returned EXCEPT ![p] = [kind |-> "rejected", message |-> "fetch"]]
    /\ UNCHANGED <<req, results, idx, response, thrown, postedAfter, save,
                   resolvedUrl, tableBefore, defaultUrl, readVars, dbVars,
                   checkedOut, clock>>

(* --------------------------- saveImportRequest ------------------------- *)

\* runQuery('INSERT INTO imports ...'): const client = await pool.connect()
LedgerConnect(p) ==
    /\ pc[p] = "ledgerConnect"
    /\ pc' = [pc EXCEPT ![p] = "ledgerQuery"]
    /\ checkedOut' = checkedOut + 1
    /\ UNCHANGED <<argVars, idx, thrown, readVars, dbVars, clock>>

\* faulty variant: the ledger insert left out
LedgerSkipped(ledger, r, now) == ledger

\* faulty variant: the ledger keeps the latest import only
LedgerKeepsLatest(ledger, r, now) == << ImportsRow(<< >>, JSONstringify(r), now) >>

\* the ledger row runQuery inserts for results
LedgerAppend(ledger, r, now) == Append(ledger, ImportsRow(ledger, JSONstringify(r), now))

\* runQuery: await client.query(...), finally client.release(); then, back in
\* saveImportRequest, the items check and pool.connect()
LedgerQuery(p) ==
    /\ pc[p] = "ledgerQuery"
    /\ checkedOut' = checkedOut - 1
    /\ \E sqlState \in {Success, ConnectionFailure} :
         IF sqlState = Success
         THEN /\ imports' = LedgerAppend(imports, results[p], clock)
              /\ IF "items" \in DOMAIN results[p]
                 THEN /\ pc' = [pc EXCEPT ![p] = "poolConnect"]
                      /\ UNCHANGED thrown
                 ELSE /\ pc' = [pc EXCEPT ![p] = "saveFailed"]
                      /\ thrown' = [thrown EXCEPT ![p] =
                             [at |-> "items", message |-> NoItemsMessage]]
         ELSE /\ pc' = [pc EXCEPT ![p] = "saveFailed"]
              /\ thrown' = [thrown EXCEPT ![p] = [at |-> "imports", code |-> sqlState]]
              /\ UNCHANGED imports
    /\ UNCHANGED <<argVars, idx, readVars, articles, articlesSeq, clock>>

\* const client = await pool.connect(), then the for..of loop up to the
\* first await client.query; over no items the loop ends and the client is
\* released at once
PoolConnect(p) ==
    /\ pc[p] = "poolConnect"
    /\ IF Len(results[p].items) = 0
       THEN /\ pc' = [pc EXCEPT ![p] = "saved"]
            /\ UNCHANGED <<idx, checkedOut>>
       ELSE /\ pc' = [pc EXCEPT ![p] = "insert"]
            /\ idx' = [idx EXCEPT ![p] = 1]
            /\ checkedOut' = checkedOut + 1
    /\ UNCHANGED <<argVars, thrown, readVars, dbVars, clock>>

\* after the item at idx[p]: the next item's INSERT, or client.release()
\* and return
NextItem(p) ==
    IF idx[p] < Len(results[p].items)
    THEN /\ idx' = [idx EXCEPT ![p] = idx[p] + 1]
         /\ pc' = [pc EXCEPT ![p] = "insert"]
         /\ UNCHANGED checkedOut
    ELSE /\ pc' = [pc EXCEPT ![p] = "saved"]
         /\ checkedOut' = checkedOut - 1
         /\ UNCHANGED idx

\* faulty variant: the error of an entry is swallowed and the loop goes on
LoopContinue(p, where, sqlState) ==
    /\ NextItem(p)
    /\ UNCHANGED thrown

\* throw inside the loop: saveImportRequest rejects; client.release() is
\* after the loop and is not reached
LoopThrow(p, where, sqlState) ==
    /\ pc' = [pc EXCEPT ![p] = "saveFailed"]
    /\ thrown' = [thrown EXCEPT ![p] = [at |-> where, code |-> sqlState]]
    /\ UNCHANGED <<idx, checkedOut>>

\* await client.query('INSERT INTO articles ...') and the catch around it
InsertArticle(p) ==
    /\ pc[p] = "insert"
    /\ LET item == results[p].items[idx[p]]
           row == InsertRow(item, results[p], articlesSeq + 1, clock)
       IN  \E sqlState \in {InsertSqlState(row, articles), ConnectionFailure} :
             /\ articlesSeq' = IF sqlState = ConnectionFailure
                               THEN articlesSeq ELSE articlesSeq + 1
             /\ IF sqlState = Success
                THEN /\ articles' = articles \cup {row}
                     /\ NextItem(p)
                     /\ UNCHANGED thrown
                ELSE IF sqlState = ConflictCode
                THEN /\ pc' = [pc EXCEPT ![p] = "update"]
                     /\ UNCHANGED <<articles, idx, checkedOut, thrown>>
                ELSE /\ LoopThrow(p, "insert", sqlState)
                     /\ UNCHANGED articles
    /\ UNCHANGED <<argVars, readVars, imports, clock>>

\* await client.query('UPDATE articles ...') inside the catch
UpdateArticle(p) ==
    /\ pc[p] = "update"
    /\ LET item == results[p].items[idx[p]]
       IN  \E sqlState \in {UpdateSqlState(articles, item), ConnectionFailure} :
             IF sqlState = Success
             THEN /\ articles' = UpdateRows(articles, item)
                  /\ NextItem(p)
                  /\ UNCHANGED thrown
             ELSE /\ LoopThrow(p, "update", sqlState)
                  /\ UNCHANGED articles
    /\ UNCHANGED <<argVars, readVars, articlesSeq, imports, clock>>

(* --------------------------- GET /api/articles ------------------------- *)

\* the route handler calls rssModule.get(), which calls runQuery up to
\* await pool.connect()
Get(r) ==
    /\ rpc[r] = "idle"
    /\ \A o \in Reads : o < r => rpc[o] # "idle"
    /\ rpc' = [rpc EXCEPT ![r] = "connect"]
    /\ issuedAfter' = [issuedAfter EXCEPT ![r] =
           {p \in Calls : response[p].status = 201}]
    /\ UNCHANGED <<callVars, rresponse, dbVars, checkedOut, clock>>

ReadConnect(r) ==
    /\ rpc[r] = "connect"
    /\ rpc' = [rpc EXCEPT ![r] = "query"]
    /\ checkedOut' = checkedOut + 1
    /\ UNCHANGED <<callVars, rresponse, issuedAfter, dbVars, clock>>

\* await client.query('SELECT * FROM articles'), finally client.release();
\* get() adds wordwithmostvowels and the route sends the rows (200)
ReadQuery(r) ==
    /\ rpc[r] = "query"
    /\ checkedOut' = checkedOut - 1
    /\ \E sqlState \in {Success, ConnectionFailure} :
         IF sqlState = Success
         THEN /\ rpc' = [rpc EXCEPT ![r] = "responded"]
              /\ rresponse' = [rresponse EXCEPT ![r] =
                     [status |-> 200,
                      body |-> {ArticleJson(a) : a \in SelectAll(articles)}]]
         ELSE /\ rpc' = [rpc EXCEPT ![r] = "failed"]
              /\ UNCHANGED rresponse
    /\ UNCHANGED <<callVars, issuedAfter, dbVars, clock>>

(* --------------------------------- time -------------------------------- *)

Tick ==
    /\ clock < MaxClock
    /\ clock' = clock + 1
    /\ UNCHANGED <<callVars, readVars, dbVars, checkedOut>>

Next ==
    \/ \E p \in Calls : Post(p)
    \/ \E p \in Calls : ParseURLResolve(p)
    \/ \E p \in Calls : ParseURLReject(p)
    \/ \E p \in Calls : LedgerConnect(p)
    \/ \E p \in Calls : LedgerQuery(p)
    \/ \E p \in Calls : PoolConnect(p)
    \/ \E p \in Calls : InsertArticle(p)
    \/ \E p \in Calls : UpdateArticle(p)
    \/ \E r \in Reads : Get(r)
    \/ \E r \in Reads : ReadConnect(r)
    \/ \E r \in Reads : ReadQuery(r)
    \/ Tick

Spec == Init /\ [][Next]_vars

\* the requests up to the validation of siteRssUrl only: isValid and
\* isValidUrl applied to every request value
NextValidation == \E p \in Calls : Post(p)

SpecValidation == Init /\ [][NextValidation]_vars

(* ------------------- RssModule.import called directly ------------------- *)

\* the values of the url argument of the constructor and of import: null
\* (the default), the empty string, malformed, unsupported and supported URLs
UrlArguments ==
    { [type |-> "undefined"],
      Str(""),
      Str("not a valid URL"),
      Str("www.lemonde.fr/rss/une.xml"),
      Str("http://www.lemonde.fr/rss/une.xml"),
      Str("https://www.lemonde.fr/rss/une.xml"),
      Str("https://www.theguardian.com/world/europe-news/rss") }

\* a module of its own: new RssModule(url) with any url argument
InitImport == InitRequests /\ InitTables /\ defaultUrl \in {constructorUrl(u) : u \in UrlArguments}

\* import(url, save) called on the instance, up to await parser.parseURL
Import(p) ==
    /\ pc[p] = "idle"
    /\ \A o \in Calls : o < p => pc[o] # "idle"
    /\ \E url \in UrlArguments, s \in BOOLEAN :
         /\ req' = [req EXCEPT ![p] = url]
         /\ save' = [save EXCEPT ![p] = s]
         /\ ImportStart(p, url)
    /\ UNCHANGED <<results, idx, response, thrown, postedAfter, tableBefore,
                   defaultUrl, readVars, dbVars, checkedOut, clock>>

\* parser.parseURL resolves and import returns, or goes on to save
ImportParsed(p) ==
    /\ pc[p] = "parseURL"
    /\ \E r \in FeedDocuments(resolvedUrl[p].value) : ImportResolve(p, r)
    /\ UNCHANGED <<req, idx, response, thrown, postedAfter, save, resolvedUrl,
                   defaultUrl, readVars, dbVars, checkedOut, clock>>

NextImport ==
    \/ \E p \in Calls : Import(p)
    \/ \E p \in Calls : ImportParsed(p)
    \/ \E p \in Calls : ParseURLReject(p)
    \/ \E p \in Calls : LedgerConnect(p)
    \/ \E p \in Calls : LedgerQuery(p)
    \/ \E p \in Calls : PoolConnect(p)
    \/ \E p \in Calls : InsertArticle(p)
    \/ \E p \in Calls : UpdateArticle(p)

SpecImport == InitImport /\ [][NextImport]_vars

\* import up to the check of the resolved url only
NextResolve == \E p \in Calls : Import(p)

SpecResolve == InitImport /\ [][NextResolve]_vars

(* ---------------- GET /api/articles over stored titles ------------------ *)

\* titles an article can carry: empty, one word, ties in vowels and in
\* length, upper-case vowels, repeated, leading and trailing spaces, tab and
\* line feed inside the title
Titles ==
    { "", "a", "b", "sky", "Le monde", "a ee", "ee a", "ab ad", "ab cde",
      "cde ab", "xyz bcdf", "bcdf xyz", "AEIOU b", "AEIOU ab", "a  ee", " a",
      "a ", "  ", "oui non", "banana apple", "apple banana", "ab cd ef ad",
      "a\tee oo", "uu\nii o", "\ta" }

\* a feed whose one entry has title t
TitleDocument(t) == [items |-> << Item("g1", t, "s1", "d1", "l1") >>]

\* the service started on a database into which a feed with one entry was
\* imported before
InitTitles ==
    /\ InitRequests
    /\ defaultUrl = thisUrl
    /\ \E t \in Titles :
         /\ articles = {InsertRow(TitleDocument(t).items[1], TitleDocument(t), 1, 0)}
         /\ articlesSeq = 1
         /\ imports = LedgerAppend(<< >>, TitleDocument(t), 0)

NextTitles ==
    \/ \E r \in Reads : Get(r)
    \/ \E r \in Reads : ReadConnect(r)
    \/ \E r \in Reads : ReadQuery(r)

SpecTitles == InitTitles /\ [][NextTitles]_vars

(* ============================ properties =============================== *)

\* the external ids a parsed result carries
ExternalIds(r) ==
    IF "items" \in DOMAIN r
    THEN {Field(r.items[i], primaryKey) : i \in 1..Len(r.items)} \ {Undefined}
    ELSE {}

RowsOf(e) == {a \in articles : a.externalId = e}

HasItems(r) == "items" \in DOMAIN r /\ Len(r.items) > 0

\* request p took a step of its own
Stepped(p) == pc'[p] # pc[p] \/ idx'[p] # idx[p]

\* the item request p is working on
CurrentItem(p) == results[p].items[idx[p]]

CallAtRest(p) ==
    pc[p] \in {"idle", "rejected", "importThrew", "fetchFailed", "returned",
               "saved", "saveFailed"}

ReadAtRest(r) == rpc[r] \in {"idle", "responded", "failed"}

\* the request value is a string on the allow-list
SupportedString(q) == q.type = "string" /\ q.value \in supportedRssFeeds

(* ---- C1 ---- *)
\* C1: in every reachable state no two article rows have the same external
\* id, and a step that inserts an entry whose external id is already stored
\* adds no row: the request goes on to the UPDATE (or fails on a lost
\* connection), and the UPDATE keeps the number of rows.
C1_UniqueExternalId ==
    /\ [](\A a, b \in articles : a.externalId = b.externalId => a = b)
    /\ [][\A p \in Calls :
            /\ (pc[p] = "insert" /\ Stepped(p)
                  /\ RowsOf(Field(CurrentItem(p), primaryKey)) # {})
               => /\ articles' = articles
                  /\ pc'[p] \in {"update", "saveFailed"}
            /\ (pc[p] = "update" /\ Stepped(p))
               => Cardinality(articles') = Cardinality(articles)]_vars

C1_Witness ==
    \E p, q \in Calls :
       /\ p # q /\ pc[p] = "saved" /\ pc[q] = "saved"
       /\ \E e \in ExternalIds(results[p]) \cap ExternalIds(results[q]) :
             Cardinality(RowsOf(e)) = 1

(* ---- C2 ---- *)
\* the rows stored for the external ids of a parsed result
RowsOfFeed(r) == {a \in articles : a.externalId \in ExternalIds(r)}

\* C2: when the same feed content is imported twice in sequence (the second
\* request arrives after the first was answered), the second is answered 201
\* as well, and once the save of either has finished the rows stored for the
\* feed are one per external id: the count after the second save is the
\* count after the first.
C2_ReimportAddsNoRows ==
    \A p, q \in Calls :
       (p \in postedAfter[q] /\ response[p].status = 201
          /\ results[q] # NoResults /\ results[p] = results[q])
       => /\ response[q].status = 201
          /\ \A o \in {p, q} :
                pc[o] = "saved"
                => Cardinality(RowsOfFeed(results[o]))
                     = Cardinality(ExternalIds(results[o]))

C2_Witness ==
    \E p, q \in Calls :
       /\ p \in postedAfter[q] /\ results[p] = results[q]
       /\ pc[p] = "saved" /\ pc[q] = "saved"
       /\ response[q].status = 201
       /\ Cardinality(RowsOfFeed(results[q])) = 2

(* ---- C3 ---- *)
\* C3: the UPDATE a re-import runs for an entry already stored puts the
\* entry's title into the existing row and leaves the row's id, externalId
\* and importDate as they were.
C3_UpdateInPlace ==
    [][\A p \in Calls :
         (pc[p] = "update" /\ pc'[p] \in {"insert", "saved"})
         => LET e == Field(CurrentItem(p), primaryKey) IN
            /\ RowsOf(e) # {}
            /\ \A a \in RowsOf(e) :
                  \E b \in articles' :
                     /\ b.id = a.id
                     /\ b.externalId = a.externalId
                     /\ b.importDate = a.importDate
                     /\ b.title = CurrentItem(p).title]_vars

C3_Witness ==
    \E p, q \in Calls :
       /\ results[p] = LeMondeUne /\ results[q] = LeMondeUneEdited
       /\ p \in postedAfter[q]
       /\ pc[p] = "saved" /\ pc[q] = "saved"
       /\ \E a \in articles :
             /\ a.externalId = "g1" /\ a.title = "Le monde oui"
             /\ a.importDate < clock

(* ---- C4 ---- *)
\* C4: isValidUrl is true exactly for the non-empty strings that start with
\* http:// or https://, parse as a URL and are on the allow-list, which are
\* exactly the allow-listed URLs; a request is let through to the fetch
\* exactly when its siteRssUrl is one of them.
C4_IsValidUrl ==
    /\ \A q \in QueryValues :
          isValidUrl(q) <=> (q.type = "string" /\ q.value \in supportedRssFeeds)
    /\ \A f \in supportedRssFeeds : isValidUrl(Str(f))
    /\ \A p \in Calls :
          pc[p] # "idle" => (pc[p] # "rejected" <=> SupportedString(req[p]))

C4_Witness ==
    \E p, q \in Calls :
       /\ pc[p] = "parseURL" /\ SupportedString(req[p])
       /\ pc[q] = "rejected"
       /\ req[q] = Str("https://www.theguardian.com/world/world-news/rss")

(* ---- C5 ---- *)
\* C5: a request whose siteRssUrl is missing, malformed or not allow-listed
\* is answered 422 with an error message in the step that receives it, that
\* step changes neither table, and the request never reaches the fetch.
C5_Rejected422 ==
    [][\A p \in Calls :
         /\ (pc[p] = "idle" /\ pc'[p] # "idle" /\ ~SupportedString(req'[p]))
            => /\ pc'[p] = "rejected"
               /\ response'[p].status = 422
               /\ response'[p].error \in {RequiredMessage, UnsupportedMessage}
               /\ articles' = articles
               /\ imports' = imports
         /\ pc[p] = "rejected"
            => (pc'[p] = "rejected" /\ results'[p] = NoResults)]_vars

C5_Witness ==
    \E p, q \in Calls :
       /\ pc[p] = "rejected" /\ response[p].status = 422
       /\ req[p] = Str("not a valid URL")
       /\ pc[q] = "saved" /\ articles # {}

(* ---- C6 ---- *)
ArticleKeys ==
    {"id", "externalid", "importdate", "title", "description",
     "publicationdate", "link", "mainpicture", "wordwithmostvowels"}

\* C6: a GET /api/articles that arrives after a 201 for a feed with at least
\* one entry answers a non-empty array whose elements carry all the fields.
C6_ReadAfterImport ==
    \A r \in Reads :
       (rpc[r] = "responded" /\ \E p \in issuedAfter[r] : HasItems(results[p]))
       => /\ rresponse[r].body # {}
          /\ \A a \in rresponse[r].body : DOMAIN a = ArticleKeys

(* ---- C7 ---- *)
\* request p is past its ledger insert, which succeeded
PastLedger(p) ==
    \/ pc[p] \in {"poolConnect", "insert", "update", "saved"}
    \/ pc[p] = "saveFailed" /\ thrown[p].at # "imports"

\* C7: a request that is at or past its article writes, or failed in them,
\* has its ledger row holding the serialised parsed result; every such
\* request appended exactly one row; and the articles table changes only in
\* steps of requests that are past their ledger insert.
C7_LedgerFirst ==
    /\ [](\A p \in Calls :
            PastLedger(p)
            => \E i \in 1..Len(imports) :
                  imports[i].rawContent = JSONstringify(results[p]))
    /\ [](Len(imports) = Cardinality({p \in Calls : PastLedger(p)}))
    /\ [][articles' # articles
            => \E p \in Calls : PastLedger(p) /\ Stepped(p)]_vars

C7_Witness ==
    \E p \in Calls :
       /\ pc[p] = "saveFailed" /\ thrown[p].at = "insert" /\ idx[p] = 2
       /\ articles # {}
       /\ \E i \in 1..Len(imports) :
             imports[i].rawContent = JSONstringify(results[p])

(* ---- C8 ---- *)
\* C8: an import whose parsed result has no items collection fails to its
\* caller: the request is not answered 201.
C8_NoItemsFails ==
    \A p \in Calls :
       (results[p] # NoResults /\ "items" \notin DOMAIN results[p] /\ Answered(p))
       => response[p].status # 201

(* ---- C9 ---- *)
\* C9: a uniqueness conflict never fails a save: the request that meets it
\* goes on to the UPDATE, and when two requests carrying the same external id
\* have both finished saving there is exactly one row for it.
C9_ConflictFallsBack ==
    /\ [](\A p \in Calls :
            (pc[p] = "saveFailed" /\ "code" \in DOMAIN thrown[p])
            => thrown[p].code # UniqueViolation)
    /\ [](\A p, q \in Calls :
            (p # q /\ pc[p] = "saved" /\ pc[q] = "saved")
            => \A e \in ExternalIds(results[p]) \cap ExternalIds(results[q]) :
                  Cardinality(RowsOf(e)) = 1)
    /\ [][\A p \in Calls :
            (pc[p] = "insert" /\ Stepped(p) /\ pc'[p] # "saveFailed"
               /\ RowsOf(Field(CurrentItem(p), primaryKey)) # {})
            => pc'[p] = "update"]_vars

\* two requests that arrived before either was answered carry the same
\* entries; one has inserted the entry the other now finds stored
C9_Witness ==
    \E p, q \in Calls :
       /\ p # q /\ results[p] = results[q]
       /\ p \notin postedAfter[q] /\ q \notin postedAfter[p]
       /\ pc[p] = "update" /\ idx[p] = 1
       /\ pc[q] = "insert" /\ idx[q] = 2

(* ---- C10 ---- *)
\* C10: whenever no request is in progress, no client of the pool is
\* checked out.
C10_ConnectionsReleased ==
    ((\A p \in Calls : CallAtRest(p)) /\ (\A r \in Reads : ReadAtRest(r)))
    => checkedOut = 0

(* ---- C11 ---- *)
\* C11: a save that failed on storage, at the INSERT into imports or at the
\* INSERT or UPDATE of an article, for a reason other than a uniqueness
\* conflict, is surfaced to the caller: the request is not answered 201.
C11_StorageErrorSurfaced ==
    \A p \in Calls :
       (pc[p] = "saveFailed" /\ thrown[p].at \in {"imports", "insert", "update"})
       => response[p].status # 201

(* ---- C12 ---- *)
\* request q began its save when no other request was in progress, after
\* request p had saved the same feed content, and no request ran since
ReimportOf(q, p) ==
    /\ tableBefore[q].quiet
    /\ p \in tableBefore[q].finished
    /\ pc[p] = "saved" /\ results[p] = results[q]
    /\ \A o \in Calls \ {q} : o \in tableBefore[q].finished \/ pc[o] = "idle"

\* C12: when the save of a second import of the same unchanged feed has
\* finished, table articles is exactly what it was after the first import:
\* the same rows with the same externalId, title, description,
\* publicationDate, link, mainPicture, importDate and id.
C12_ReimportKeepsRows ==
    \A p, q \in Calls :
       (pc[q] = "saved" /\ ReimportOf(q, p)) => articles = tableBefore[q].articles

(* ---- C13 ---- *)
\* the calls of import that went on to save
Savers == {p \in Calls : save[p] /\ results[p] # NoResults}

\* C13: import(url, false) with a valid URL returns the parsed result as
\* the parser gave it and touches no storage: the call ends there, and the
\* ledger rows, the article rows and the clients checked out are accounted
\* for by the calls that save; with no such call the tables are empty and
\* no client was acquired.
C13_NoSaveTouchesNothing ==
    /\ \A p \in Calls :
          (~save[p] /\ results[p] # NoResults)
          => /\ pc[p] = "returned"
             /\ returned[p] = [kind |-> "resolved", value |-> results[p]]
             /\ results[p] \in FeedDocuments(resolvedUrl[p].value)
    /\ Len(imports) <= Cardinality(Savers)
    /\ checkedOut <= Cardinality(Savers)
    /\ Savers = {} => (articles = {} /\ articlesSeq = 0 /\ imports = <<>>)

\* one call returned without saving, the other saved the same feed
C13_Witness ==
    \E p, q \in Calls :
       /\ ~save[p] /\ pc[p] = "returned" /\ HasItems(results[p])
       /\ save[q] /\ pc[q] = "saved" /\ results[q] = results[p]
       /\ Len(imports) = 1

(* ---- C14 ---- *)
\* number of lower-case vowels of word w
LowerVowels(w) ==
    Cardinality({i \in 1..Len(w) : SubSeq(w, i, i) \in {"a", "e", "i", "o", "u", "y"}})

\* word w is preferred to word v: more vowels, or as many and strictly longer
Beats(w, v) ==
    \/ LowerVowels(w) > LowerVowels(v)
    \/ LowerVowels(w) = LowerVowels(v) /\ Len(w) > Len(v)

\* the positions at which title s is cut, given the separating characters
Cuts(s, seps) ==
    {0, Len(s) + 1} \cup {i \in 1..Len(s) : SubSeq(s, i, i) \in seps}

\* the word of s that starts after cut a
WordAfter(s, seps, a) ==
    LET b == CHOOSE c \in Cuts(s, seps) :
                c > a /\ \A d \in Cuts(s, seps) : d > a => c <= d
    IN  SubSeq(s, a + 1, b - 1)

\* the first word of s that no other word is preferred to
PreferredWord(s, seps) ==
    LET starts == Cuts(s, seps) \ {Len(s) + 1}
        a == CHOOSE c \in starts :
                \A d \in starts :
                   /\ ~Beats(WordAfter(s, seps, d), WordAfter(s, seps, c))
                   /\ d < c => Beats(WordAfter(s, seps, c), WordAfter(s, seps, d))
    IN  WordAfter(s, seps, a)

Whitespace == {" ", "\t", "\n"}

\* C14 (as claimed): wordwithmostvowels of every article a read returns is
\* the word of the title, cut on whitespace, with the most lower-case vowels;
\* of words with as many vowels the strictly longer one, of words with as
\* many letters too the first; the empty string for an empty title.
C14_MostVowelsByWhitespace ==
    \A r \in Reads :
       rpc[r] = "responded"
       => \A b \in rresponse[r].body :
             b.wordwithmostvowels = PreferredWord(b.title, Whitespace)

\* C14 (amended): the same, the title being cut at every space character
\* only: a tab or a line feed stays inside its word.
C14_MostVowelsBySpace ==
    \A r \in Reads :
       rpc[r] = "responded"
       => \A b \in rresponse[r].body :
             b.wordwithmostvowels = PreferredWord(b.title, {" "})

\* a title with a tab was read: the tab is inside the word returned
C14_Witness ==
    \E r \in Reads :
       /\ rpc[r] = "responded"
       /\ \E b \in rresponse[r].body :
             b.title = "a\tee oo" /\ b.wordwithmostvowels = "a\tee"

(* ---- C15 ---- *)
\* element b of a response body is row a with wordwithmostvowels added
Augmented(a, b) ==
    /\ b.id = a.id /\ b.externalid = a.externalId /\ b.importdate = a.importDate
    /\ b.title = a.title /\ b.description = a.description
    /\ b.publicationdate = a.publicationDate /\ b.link = a.link
    /\ b.mainpicture = a.mainPicture
    /\ b.wordwithmostvowels = wordWithMostVowels(a.title)

\* C15: a read that is answered is answered 200 with one element for each
\* row stored at the time of the query and no other element (none for an
\* empty table), each the row with wordwithmostvowels =
\* wordWithMostVowels(title) added; no step of a read changes table articles
\* or table imports.
C15_ReadReturnsAllRows ==
    [][\A r \in Reads :
          rpc'[r] # rpc[r]
          => /\ UNCHANGED <<articles, articlesSeq, imports>>
             /\ rpc'[r] = "responded"
                => /\ rresponse'[r].status = 200
                   /\ \A a \in articles :
                         \E b \in rresponse'[r].body : Augmented(a, b)
                   /\ \A b \in rresponse'[r].body :
                         \E a \in articles : Augmented(a, b)
                   /\ Cardinality(rresponse'[r].body) = Cardinality(articles)]_vars

\* a read was answered with the two rows of an import
C15_Witness ==
    \E r \in Reads :
       /\ rpc[r] = "responded"
       /\ Cardinality(articles) = 2
       /\ Cardinality(rresponse[r].body) = 2
       /\ \E b \in rresponse[r].body : b.wordwithmostvowels = "monde"

(* ---- C16 ---- *)
\* C16: table imports is append-only. No step removes a row or changes one
\* (its payload included), so the count never decreases; the step in which a
\* saving request runs its ledger INSERT, unless that INSERT itself fails,
\* adds exactly one row, holding the serialised parsed result, whatever the
\* result holds (entries, no entry, no items collection); and no other step
\* changes the table.
C16_LedgerAppendOnly ==
    /\ [][/\ Len(imports') >= Len(imports)
          /\ \A i \in 1..Len(imports) : imports'[i] = imports[i]]_vars
    /\ [][\A p \in Calls :
            (pc[p] = "ledgerQuery" /\ Stepped(p)
               /\ ~(pc'[p] = "saveFailed" /\ thrown'[p].at = "imports"))
            => /\ Len(imports') = Len(imports) + 1
               /\ imports'[Len(imports')].rawContent = JSONstringify(results[p])]_vars
    /\ [][imports' # imports
            => \E p \in Calls : pc[p] = "ledgerQuery" /\ Stepped(p)]_vars

\* two imports that produced no article each left their row
C16_Witness ==
    \E p, q \in Calls :
       /\ pc[p] = "saveFailed" /\ thrown[p].at = "items"
       /\ pc[q] = "saved" /\ ~HasItems(results[q])
       /\ articles = {}
       /\ Len(imports) = 2
       /\ imports[1].rawContent # imports[2].rawContent

(* ---- C17 ---- *)
\* the url argument was given: a non-empty string
Present(u) == u.type = "string" /\ u.value # ""

\* C17 (as claimed): a call of import throws only if neither its url
\* argument nor the url field of the instance is a supported URL; a
\* supported argument is the URL fetched, and with an argument that is not
\* supported on an instance whose url field is, the call goes on to fetch
\* that field.
C17_FailsOnlyIfNeitherValid ==
    \A p \in Calls :
       pc[p] # "idle"
       => /\ pc[p] = "importThrew"
             <=> (~SupportedString(req[p]) /\ ~SupportedString(defaultUrl))
          /\ SupportedString(req[p]) => resolvedUrl[p] = req[p]
          /\ (~SupportedString(req[p]) /\ SupportedString(defaultUrl))
             => (pc[p] = "parseURL" /\ resolvedUrl[p] = defaultUrl)

\* C17 (amended): the URL of a call of import is its url argument if one is
\* given, whatever it is, and the url field of the instance otherwise; the
\* call throws exactly when that URL is not a supported URL, and goes on to
\* fetch it otherwise.
C17_ExplicitUrlFirst ==
    \A p \in Calls :
       pc[p] # "idle"
       => LET resolved == IF Present(req[p]) THEN req[p] ELSE defaultUrl
          IN  /\ resolvedUrl[p] = resolved
              /\ pc[p] \in {"importThrew", "parseURL"}
              /\ pc[p] = "importThrew" <=> ~SupportedString(resolved)
              /\ pc[p] = "importThrew"
                 => returned[p] = [kind |-> "rejected", message |-> InvalidUrlMessage]

\* a malformed argument on an instance with a supported url field: thrown
C17_Witness ==
    \E p \in Calls :
       /\ Present(req[p]) /\ ~SupportedString(req[p])
       /\ SupportedString(defaultUrl)
       /\ pc[p] = "importThrew"

(* ---- C18 ---- *)
\* C18: a save whose INSERT or UPDATE of an entry fails with an error other
\* than a uniqueness conflict stops at that entry. An INSERT step that
\* neither stores the entry nor meets a conflict ends the save as failed;
\* the failing step leaves table articles as it is (the rows written before
\* stay, nothing is rolled back); a failed save takes no further step; and
\* table articles changes only in insert or update steps that do not fail.
C18_StopsAtFailedEntry ==
    /\ [][\A p \in Calls :
            (pc[p] = "insert" /\ Stepped(p) /\ pc'[p] \notin {"update", "saveFailed"})
            => \E a \in articles' \ articles :
                  a.externalId = Field(CurrentItem(p), primaryKey)]_vars
    /\ [][\A p \in Calls :
            (pc[p] \in {"insert", "update"} /\ pc'[p] = "saveFailed")
            => (articles' = articles /\ idx'[p] = idx[p])]_vars
    /\ [][\A p \in Calls :
            pc[p] = "saveFailed" => (pc'[p] = "saveFailed" /\ idx'[p] = idx[p])]_vars
    /\ [][articles' # articles
            => \E p \in Calls :
                  /\ pc[p] \in {"insert", "update"}
                  /\ Stepped(p) /\ pc'[p] # "saveFailed"]_vars

\* the second of three entries has no guid: the first is stored, the third
\* was never written
C18_Witness ==
    \E p \in Calls :
       /\ pc[p] = "saveFailed"
       /\ thrown[p] = [at |-> "insert", code |-> NotNullViolation]
       /\ idx[p] = 2 /\ Len(results[p].items) = 3
       /\ RowsOf(Field(results[p].items[1], primaryKey)) # {}
       /\ RowsOf(Field(results[p].items[3], primaryKey)) = {}
       /\ \A q \in Calls \ {p} : CallAtRest(q)

(* ---- C19 ---- *)
\* the picture the claim gives the entry request p is working on: that of
\* the entry, else that of the feed, else the empty string
ResolvedPicture(p) ==
    Coalesce(ImageUrl(CurrentItem(p)), Coalesce(ImageUrl(results[p]), ""))

\* C19: every INSERT and every UPDATE of an article row that succeeds
\* leaves the row of the entry with mainPicture = the image of the entry if
\* it has one, else the image of the feed if it has one, else "".
C19_PictureFallback ==
    [][\A p \in Calls :
          (pc[p] \in {"insert", "update"} /\ Stepped(p)
             /\ pc'[p] \notin {"update", "saveFailed"})
          => \A a \in articles' :
                a.externalId = Field(CurrentItem(p), primaryKey)
                => a.mainPicture = ResolvedPicture(p)]_vars

(* ---- C20 ---- *)
\* row a has its title, description, publicationDate and link from entry e
FromEntry(a, e) ==
    /\ a.externalId = Field(e, primaryKey)
    /\ a.title = Field(e, "title")
    /\ a.description = Field(e, "contentSnippet")
    /\ a.publicationDate = Field(e, "pubDate")
    /\ a.link = Field(e, "link")

\* C20: whatever the interleaving of imports, every article row has its
\* title, description, publicationDate and link from one single entry, an
\* entry with the row's external id that some request has taken up; and
\* every INSERT or UPDATE that succeeds leaves the row of its entry with
\* these four fields from that entry, so the row holds the entry whose write
\* was applied last.
C20_LastWriteWins ==
    /\ [](\A a \in articles :
            \E p \in Calls :
               /\ HasItems(results[p])
               /\ \E i \in 1..idx[p] : FromEntry(a, results[p].items[i]))
    /\ [][\A p \in Calls :
            (pc[p] \in {"insert", "update"} /\ Stepped(p)
               /\ pc'[p] \notin {"update", "saveFailed"})
            => \A a \in articles' :
                  a.externalId = Field(CurrentItem(p), primaryKey)
                  => FromEntry(a, CurrentItem(p))]_vars

\* two requests carrying different entries for the same external id wrote
\* it one after the other: the row is the later entry, whole
C20_Witness ==
    \E p, q \in Calls :
       /\ pc[p] = "saved" /\ HasItems(results[p])
       /\ pc[q] = "saveFailed" /\ thrown[q].at = "insert" /\ idx[q] = 2
       /\ Field(results[p].items[1], primaryKey) = Field(results[q].items[1], primaryKey)
       /\ results[p].items[1].title # results[q].items[1].title
       /\ results[p].items[1].link # results[q].items[1].link
       /\ \E a \in articles : FromEntry(a, results[q].items[1])

(* ---- C21 ---- *)
\* the calls whose fetch succeeded
Fetched == {p \in Calls : results[p] # NoResults}

\* C21: a call of import whose fetch or parse fails rejects with the error
\* of the fetch and stores nothing: it has no parsed result and never
\* started a save, the failing step leaves both tables and the pool as they
\* are, the call takes no step after it, and the rows of the ledger never
\* outnumber the calls whose fetch succeeded, nor do the clients checked
\* out for imports; with no such call both tables are empty.
C21_FetchFailureStoresNothing ==
    /\ [](\A p \in Calls :
            pc[p] = "fetchFailed"
            => /\ returned[p] = [kind |-> "rejected", message |-> "fetch"]
               /\ results[p] = NoResults
               /\ idx[p] = 0 /\ thrown[p] = NoError /\ tableBefore[p] = NoTable)
    /\ [](Len(imports) <= Cardinality(Fetched))
    /\ [](Fetched = {} => (articles = {} /\ articlesSeq = 0))
    /\ [](checkedOut <= Cardinality(Fetched)
                          + Cardinality({r \in Reads : rpc[r] = "query"}))
    /\ [][\A p \in Calls :
            /\ (pc[p] = "parseURL" /\ pc'[p] = "fetchFailed")
               => UNCHANGED <<articles, articlesSeq, imports, checkedOut>>
            /\ pc[p] = "fetchFailed" => pc'[p] = "fetchFailed"]_vars

\* of two saving calls on the same URL one failed in the fetch, the other
\* saved: the ledger holds the one row of the other
C21_Witness ==
    \E p, q \in Calls :
       /\ save[p] /\ pc[p] = "fetchFailed"
       /\ save[q] /\ pc[q] = "saved" /\ HasItems(results[q])
       /\ resolvedUrl[p] = resolvedUrl[q]
       /\ Len(imports) = 1
       /\ imports[1].rawContent = JSONstringify(results[q])

====
